---- MODULE Spec2Model ----
(***************************************************************************)
(* Model of src/weekly_update.py: the weekly reconciliation job that loads *)
(* a tournament field, resolves every name against the pga_players         *)
(* registry, scrapes the player's profile, and writes aggregated           *)
(* tournament records and a skill snapshot to the store.                   *)
(*                                                                         *)
(* Conventions.  A Python str is a sequence of one-character strings.  A   *)
(* nullable number is <<>> (None / NaN) or <<v>>; decimals are integers in *)
(* thousandths.  The result of get_player_id is a record [tag, id].        *)
(***************************************************************************)
EXTENDS Integers, Sequences, FiniteSets, Bags, TLC

\* ------------------------------------------------------------------ bounds
\* Longest name (in characters) of the resolver's input universe.
MaxNameLen == 2
\* Largest registry (in records) of the resolver's input universe.
MaxRegistry == 2
\* Longest player list of one run.
MaxPlayers == 2
\* Number of runs of the script against the same store.
MaxRuns == 2
\* Longest list of raw round rows of the aggregator's input universe.
MaxRows == 2

\* ------------------------------------------------------------ Python str
\* The characters names are written in: a letter in both cases and a blank.
Alphabet == {"a", "A", " "}

\* str.lower() on one character ("b"/"B" occur in the orchestrator's names).
LowerChar(c) == CASE c = "A" -> "a" [] c = "B" -> "b" [] OTHER -> c

\* str.lower()
Lower(s) == [i \in 1..Len(s) |-> LowerChar(s[i])]

RECURSIVE SplitAcc(_, _, _, _)
SplitAcc(s, i, cur, acc) ==
    IF i > Len(s)
    THEN IF cur = <<>> THEN acc ELSE Append(acc, cur)
    ELSE IF s[i] = " "
         THEN SplitAcc(s, i + 1, <<>>, IF cur = <<>> THEN acc ELSE Append(acc, cur))
         ELSE SplitAcc(s, i + 1, Append(cur, s[i]), acc)

\* str.split(): the whitespace-delimited tokens, empty ones dropped.
Split(s) == SplitAcc(s, 1, <<>>, <<>>)

\* needle in hay
Contains(hay, needle) ==
    \E k \in 0..(Len(hay) - Len(needle)) : SubSeq(hay, k + 1, k + Len(needle)) = needle

\* The store's  name ILIKE '%last%'  filter.
ILike(value, last) == Contains(Lower(value), Lower(last))

\* ---------------------------------------------------- identity resolver
\* Results of get_player_id: an id, None, or the IndexError of name.split()[-1].
FoundId(i) == [tag |-> "id", id |-> i]
NotFound == [tag |-> "None", id |-> 0]
RaisedIndexError == [tag |-> "IndexError", id |-> 0]

\* The rows of  select("id").eq("name", name) , in store order.
ExactRows(reg, name) ==
    LET Test(p) == p.name = name IN SelectSeq(reg, Test)

\* The rows of  select("id, name").ilike("name", "%last%") , in store order.
ILikeRows(reg, last) ==
    LET Test(p) == ILike(p.name, last) IN SelectSeq(reg, Test)

\* last.lower() == p["name"].split()[-1].lower()
SameLastToken(last, pname) ==
    LET toks == Split(pname)
    IN  toks # <<>> /\ Lower(last) = Lower(toks[Len(toks)])

\* Mutant of SurnameRows: the last-token comparison is dropped, so any record
\* whose name contains the key is taken.
SurnameRowsAnyCandidate(reg, last) == ILikeRows(reg, last)

\* The candidates the for loop of get_player_id returns from, in order.
SurnameRows(reg, last) ==
    LET Test(p) == SameLastToken(last, p.name) IN SelectSeq(ILikeRows(reg, last), Test)

get_player_id(reg, name) ==
    LET exact == ExactRows(reg, name)
        toks == Split(name)
    IN  IF exact # <<>> THEN FoundId(exact[1].id)
        ELSE IF toks = <<>> THEN RaisedIndexError
        ELSE LET rows == SurnameRows(reg, toks[Len(toks)])
             IN  IF rows # <<>> THEN FoundId(rows[1].id) ELSE NotFound

\* ------------------------------------------------------- nullable numbers
Null == <<>>
Some(v) == <<v>>
IsNull(x) == x = <<>>

\* round(x, 3) of the quotient s / n, ties to even (s and the result are in
\* the units of the result).
RoundDiv(s, n) ==
    LET q == s \div n
        r == s - q * n
    IN  IF 2 * r < n THEN q
        ELSE IF 2 * r > n THEN q + 1
        ELSE IF q % 2 = 0 THEN q ELSE q + 1

RECURSIVE SumSeq(_)
SumSeq(s) == IF s = <<>> THEN 0 ELSE s[1] + SumSeq(Tail(s))

\* ------------------------------------------------------ round aggregator
\* "x <= -9000"
SentinelThreshold == -9000
\* "fin_numeric < 900"
FinishSentinel == 900

SgCols == <<"total", "ott", "app", "arg", "putt">>
AggCols == {"course_name", "fin_numeric", "fin_text", "total", "ott", "app",
            "arg", "putt", "round_score"}
GroupCols == {"event_name", "date"}
NotMadeCut == {"CUT", "WD", "DQ", "MDF"}

\* datetime.strptime(s, "%b %d, %Y").strftime("%Y-%m-%d") on the date strings
\* the profile pages of the model carry; Null when strptime raises.
StrpTime(s) ==
    CASE s = "Jun 1, 2024" -> Some("2024-06-01")
      [] s = "Jun 01, 2024" -> Some("2024-06-01")
      [] s = "Jun 8, 2024" -> Some("2024-06-08")
      [] OTHER -> Null

\* Mutant of FilterSentinel: no value is taken for the "no data" flag.
FilterSentinelKeepsAll(x) == x

\* The lambda of lines 170-172: a value at or below the threshold becomes None
\* (x is held in thousandths).
FilterSentinel(x) ==
    IF IsNull(x) THEN Null ELSE IF x[1] <= SentinelThreshold * 1000 THEN Null ELSE x

\* df[col].apply(...) for the five strokes-gained columns.
FilterRow(row) ==
    [c \in DOMAIN row |->
        IF \E k \in 1..Len(SgCols) : SgCols[k] = c THEN FilterSentinel(row[c]) ELSE row[c]]

\* The non-null values of a column within a group, in row order.
NonNull(rows, col) ==
    LET Test(r) == ~IsNull(r[col])
        kept == SelectSeq(rows, Test)
    IN  [i \in 1..Len(kept) |-> kept[i][col][1]]

\* agg "mean" followed by round(float(.), 3): Null when no value is present.
MeanRounded(rows, col) ==
    LET vs == NonNull(rows, col)
    IN  IF vs = <<>> THEN Null ELSE Some(RoundDiv(SumSeq(vs), Len(vs)))

\* agg "sum": missing values are skipped.
SumCol(rows, col) == SumSeq(NonNull(rows, col))

\* agg "first": the first non-null value of the group.
FirstCol(rows, col) ==
    LET vs == NonNull(rows, col) IN IF vs = <<>> THEN Null ELSE Some(vs[1])

\* The (event_name, date) keys in order of first appearance.  (pandas orders
\* the groups by key; the order of a batch is not observable in the store.)
RECURSIVE GroupKeys(_, _)
GroupKeys(rows, seen) ==
    IF rows = <<>> THEN seen
    ELSE LET k == <<rows[1].event_name, rows[1].date>>
             Test(x) == x = k
         IN  GroupKeys(Tail(rows),
                       IF SelectSeq(seen, Test) # <<>> THEN seen ELSE Append(seen, k))

GroupRows(rows, k) ==
    LET Test(r) == <<r.event_name, r.date>> = k IN SelectSeq(rows, Test)

\* One output record (lines 194-207) of a group whose date parsed to iso.
MakeRecord(pga_id, k, iso, g) ==
    LET fin == FirstCol(g, "fin_numeric")
        txt == FirstCol(g, "fin_text")
        crs == FirstCol(g, "course_name")
    IN  [pga_player_id |-> pga_id,
         tournament_name |-> k[1],
         course_name |-> IF IsNull(crs) THEN "" ELSE crs[1],
         tournament_date |-> iso,
         finish_position |-> IF ~IsNull(fin) /\ fin[1] < FinishSentinel THEN fin ELSE Null,
         is_made_cut |-> IsNull(txt) \/ txt[1] \notin NotMadeCut,
         total_score |-> Some(SumCol(g, "round_score")),
         strokes_gained_total |-> MeanRounded(g, "total"),
         strokes_gained_putting |-> MeanRounded(g, "putt"),
         strokes_gained_approach |-> MeanRounded(g, "app"),
         strokes_gained_around_green |-> MeanRounded(g, "arg"),
         strokes_gained_off_tee |-> MeanRounded(g, "ott")]

\* Mutant of RecordsOf: a date that does not parse ends the loop (break in
\* the place of continue).
RECURSIVE RecordsOfBreak(_, _, _)
RecordsOfBreak(pga_id, rows, keys) ==
    IF keys = <<>> THEN <<>>
    ELSE LET k == keys[1]
             iso == StrpTime(k[2])
         IN  IF IsNull(iso) THEN <<>>
             ELSE <<MakeRecord(pga_id, k, iso[1], GroupRows(rows, k))>>
                  \o RecordsOfBreak(pga_id, rows, Tail(keys))

RECURSIVE RecordsOf(_, _, _)
RecordsOf(pga_id, rows, keys) ==
    IF keys = <<>> THEN <<>>
    ELSE LET k == keys[1]
             iso == StrpTime(k[2])
             rest == RecordsOf(pga_id, rows, Tail(keys))
         IN  IF IsNull(iso) THEN rest
             ELSE <<MakeRecord(pga_id, k, iso[1], GroupRows(rows, k))>> \o rest

\* The columns of pd.DataFrame(new_data).
Columns(new_data) == UNION {DOMAIN new_data[i] : i \in 1..Len(new_data)}

\* groupby / agg raise KeyError when a column they name is not in the frame.
RaisesKeyError(new_data) ==
    new_data # <<>> /\ ~((GroupCols \cup AggCols) \subseteq Columns(new_data))

\* process_tournament_records, for a frame that has every column.
process_tournament_records(new_data, pga_id) ==
    IF new_data = <<>> THEN <<>>
    ELSE LET df == [i \in 1..Len(new_data) |-> FilterRow(new_data[i])]
         IN  RecordsOf(pga_id, df, GroupKeys(df, <<>>))

\* --------------------------------------------------- skill snapshot builder
\* Output field <- category key ("bin") for the percentile fields.
PercTable ==
    << <<"driving_overall", "driving">>, <<"driving_distance", "ott_1">>,
       <<"driving_accuracy", "ott_2">>, <<"approach_overall", "approach">>,
       <<"approach_50_100", "app_1">>, <<"approach_100_150", "app_2">>,
       <<"approach_150_200", "app_3">>, <<"approach_200_plus", "app_4">>,
       <<"around_green_overall", "around">>, <<"around_green_fairway", "arg_1">>,
       <<"around_green_rough", "arg_2">>, <<"around_green_bunker", "arg_3">>,
       <<"putting_overall", "putting">>, <<"putting_2_5_feet", "putt_1">>,
       <<"putting_5_30", "putt_2">>, <<"putting_30_plus", "putt_3">> >>

\* Output field <- category key for the absolute strokes-gained fields.
SgTable ==
    << <<"sg_driving", "driving">>, <<"sg_approach", "approach">>,
       <<"sg_around_green", "around">>, <<"sg_putting", "putting">> >>

PercFields == {PercTable[i][1] : i \in 1..Len(PercTable)}
SgFields == {SgTable[i][1] : i \in 1..Len(SgTable)}
SnapshotFields == PercFields \cup SgFields \cup {"dg_id", "skills_updated_at"}

BinOf(table, f) == (CHOOSE i \in 1..Len(table) : table[i][1] = f) \* index
BinName(table, f) == table[BinOf(table, f)][2]

\* {s["bin"]: s[col] for s in skills}.get(bin): the last entry of the bin wins.
DictGet(skills, col, bin) ==
    LET Test(s) == s.bin = bin
        hits == SelectSeq(skills, Test)
    IN  IF hits = <<>> THEN Null ELSE Some(hits[Len(hits)][col])

\* Mutant of sg: a value that is no number is stored as zero.
sgUnparsedIsZero(x) ==
    IF IsNull(x) THEN Null
    ELSE IF x[1].text = "bad" THEN Some(0) ELSE Some(RoundDiv(x[1].n, 10))

\* sg(x): x is None, or a value [text, n] whose text after dropping "+" is the
\* decimal n / 10000 (text "num") or is no number at all (text "bad").
sg(x) ==
    IF IsNull(x) THEN Null
    ELSE IF x[1].text = "bad" THEN Null ELSE Some(RoundDiv(x[1].n, 10))

\* reload_data is Null (None) or <<payload>>.
SkillsAbsent(reload_data) ==
    IF IsNull(reload_data) THEN TRUE ELSE reload_data[1].break_skills = <<>>

\* process_skills for a payload with break_skills; utcnow is the clock reading.
process_skills(reload_data, utcnow) ==
    LET skills == reload_data[1].break_skills
    IN  [f \in SnapshotFields |->
            IF f = "dg_id" THEN reload_data[1].dg_id
            ELSE IF f = "skills_updated_at" THEN Some(utcnow)
            ELSE IF f \in PercFields THEN DictGet(skills, "perc", BinName(PercTable, f))
            ELSE sg(DictGet(skills, "val", BinName(SgTable, f)))]

\* ------------------------------------------------------------ the world
\* The names of the model.  The registry holds "A B" (id 1) and "B A" (id 2).
NameAB == <<"A", " ", "B">>
NameBA == <<"B", " ", "A">>
\* "B A" as the external site spells it (the alias of "B A").
NameAliasBA == <<"b", " ", "A">>
\* "B A" in the leaderboard's "Last, First" form.
NameCommaAB == <<"A", ",", " ", "B">>
NameSurnameA == <<"a">>
NameSurnameB == <<"B">>
NameUnknown == <<"A", "a">>
NameEmpty == <<>>

\* pga_players before the first run: no snapshot column is set.
NoSnapshot == [f \in SnapshotFields |-> Null]
InitialRegistry ==
    << [id |-> 1, name |-> NameAB, skills |-> NoSnapshot],
       [id |-> 2, name |-> NameBA, skills |-> NoSnapshot] >>

\* Raw names a field source can deliver.
RawNames == {NameAB, NameBA, NameCommaAB, NameSurnameA, NameSurnameB, NameUnknown,
             NameEmpty}

\* One scraped round.
Round(event, date, fin, txt, total, putt, score) ==
    [event_name |-> event, date |-> date, course_name |-> Some("Links"),
     fin_numeric |-> Some(fin), fin_text |-> Some(txt), total |-> total,
     ott |-> Some(250), app |-> Some(-125), arg |-> Null, putt |-> putt,
     round_score |-> Some(score)]

\* A round of a page whose rows carry no round_score column.
RoundNoScore(event, date) ==
    [event_name |-> event, date |-> date, course_name |-> Some("Links"),
     fin_numeric |-> Some(5), fin_text |-> Some("T5"), total |-> Some(1000),
     ott |-> Null, app |-> Null, arg |-> Null, putt |-> Null]

Category(bin, perc, text, n) == [bin |-> bin, perc |-> perc, val |-> [text |-> text, n |-> n]]

FullSkills ==
    << Category("driving", 80, "num", 4567), Category("ott_1", 70, "num", 0),
       Category("ott_2", 60, "num", 0), Category("approach", 55, "num", -3215),
       Category("app_1", 50, "num", 0), Category("app_2", 51, "num", 0),
       Category("app_3", 52, "num", 0), Category("app_4", 53, "num", 0),
       Category("around", 40, "bad", 0), Category("arg_1", 41, "num", 0),
       Category("arg_2", 42, "num", 0), Category("arg_3", 43, "num", 0),
       Category("putting", 30, "num", 1235), Category("putt_1", 31, "num", 0),
       Category("putt_2", 32, "num", 0), Category("putt_3", 33, "num", 0) >>

NoPuttingSkills ==
    LET Test(c) == c.bin # "putting" IN SelectSeq(FullSkills, Test)

\* A payload without the putting category whose approach category carries the
\* site's "no data" flag, -9999, as percentile and as value.
NoDataFlagSkills ==
    [i \in 1..Len(NoPuttingSkills) |->
        IF NoPuttingSkills[i].bin = "approach"
        THEN Category("approach", -9999, "num", -99990000)
        ELSE NoPuttingSkills[i]]

Page(new_data, reload_data) == [new_data |-> new_data, reload_data |-> reload_data]

\* scrape_player: Null when the search box or the profile page is not found,
\* else <<page>> with window.new_data and window.reload_data.
scrape_player(name) ==
    CASE name = NameAB ->
            Some(Page(<< Round("Open", "Jun 1, 2024", 5, "T5", Some(1200), Some(300), 68),
                         Round("Open", "Jun 1, 2024", 5, "T5", Some(-9999000), Some(501), 70),
                         Round("Cup", "2024-06-08", 999, "CUT", Some(-500), Null, 75) >>,
                      Some([dg_id |-> Some(11), break_skills |-> FullSkills])))
      [] name = NameAliasBA ->
            Some(Page(<< Round("Open", "Jun 01, 2024", 999, "CUT", Null, Null, 74) >>,
                      Some([dg_id |-> Some(22), break_skills |-> NoDataFlagSkills])))
      [] name = NameSurnameA -> Some(Page(<<>>, Null))
      [] name = NameSurnameB ->
            Some(Page(<< RoundNoScore("Open", "Jun 8, 2024") >>, Null))
      [] name = NameUnknown ->
            Some(Page(<< Round("Cup", "Jun 8, 2024", 1, "1", Some(2500), Some(900), 66) >>,
                      Some([dg_id |-> Some(33), break_skills |-> FullSkills])))
      [] OTHER -> Null

\* ------------------------------------------------------- field loaders
RECURSIVE LStrip(_)
LStrip(s) == IF s # <<>> /\ s[1] = " " THEN LStrip(Tail(s)) ELSE s

RECURSIVE RStrip(_)
RStrip(s) == IF s # <<>> /\ s[Len(s)] = " " THEN RStrip(SubSeq(s, 1, Len(s) - 1)) ELSE s

\* str.strip()
Strip(s) == RStrip(LStrip(s))

\* The index of the first "," of s, or 0.
FirstComma(s) ==
    IF \E i \in 1..Len(s) : s[i] = ","
    THEN CHOOSE i \in 1..Len(s) : s[i] = "," /\ \A j \in 1..(i - 1) : s[j] # ","
    ELSE 0

\* Lines 98-103: "Last, First" becomes "First Last"; any other name is stripped.
NormalizeName(name) ==
    LET c == FirstComma(name)
    IN  IF c = 0 THEN Strip(name)
        ELSE Strip(SubSeq(name, c + 1, Len(name))) \o <<" ">> \o Strip(SubSeq(name, 1, c - 1))

\* NAME_ALIASES.get(name, name): the registry's "B A" is "b A" on the site.
NAME_ALIASES(name) == IF name = NameBA THEN NameAliasBA ELSE name

HeaderNames == { <<"p", "l", "a", "y", "e", "r">>, <<"n", "a", "m", "e">> }

\* line.split(",")[0].strip()
FirstColumn(line) ==
    LET c == FirstComma(line)
    IN  Strip(IF c = 0 THEN line ELSE SubSeq(line, 1, c - 1))

RECURSIVE FieldFileNames(_, _)
FieldFileNames(lines, i) ==
    IF i > Len(lines) THEN <<>>
    ELSE LET name == FirstColumn(Strip(lines[i]))
             rest == FieldFileNames(lines, i + 1)
         IN  IF Strip(lines[i]) = <<>> THEN rest
             ELSE IF i = 1 /\ Lower(name) \in HeaderNames THEN rest
             ELSE IF name = <<>> THEN rest
             ELSE <<NAME_ALIASES(name)>> \o rest

\* load_players_from_field_file: the first column of every line of the file.
load_players_from_field_file(lines) == FieldFileNames(lines, 1)

\* load_players_from_tournament: resp is the store's answer [error, data], data
\* the joined pga_players names.  Null is None.
load_players_from_tournament(resp) ==
    LET Test(n) == n # <<>>
        named == SelectSeq(resp.data, Test)
        players == [i \in 1..Len(named) |-> NAME_ALIASES(named[i])]
    IN  IF resp.error THEN Null
        ELSE IF players # <<>> THEN Some(players) ELSE Null

\* Mutant of fetch_field_from_past_results: only a missing leaderboard object
\* is refused; an empty leaderboard is returned as an empty field.
fetch_field_AcceptsEmpty(data) ==
    IF IsNull(data) THEN Null
    ELSE Some([i \in 1..Len(data[1]) |-> NormalizeName(data[1][i])])

\* fetch_field_from_past_results: data is Null (no window.reload_data.lb) or
\* <<the leaderboard's player names>>.
fetch_field_from_past_results(data) ==
    IF IsNull(data) \/ data[1] = <<>> THEN Null
    ELSE Some([i \in 1..Len(data[1]) |-> NormalizeName(data[1][i])])

\* ---------------------------------------------------------------- state
VARIABLES
    env,          \* what the selected field source answers: [source, fail, field]
    uniqueKey,    \* the store declares UNIQUE (pga_player_id, tournament_name, tournament_date)
    pga_players,  \* table pga_players: rows [id, name, skills]
    results,      \* table historical_tournament_results: a bag of rows
    now,          \* the clock datetime.utcnow() reads
    run,          \* which run of the script this is
    pc,           \* where main is
    players,      \* main's players
    idx,          \* i + 1 of the for loop (0 before the first player)
    pid,          \* main's pid
    records,      \* main's records
    reload,       \* data.get("reload_data")
    tourn_ok,
    skills_ok,
    driverQuits,  \* calls of driver.quit() in this run
    printed,      \* the counters the summary printed, Null before it
    exc,          \* "none", "KeyboardInterrupt" (caught) or "Exception" (in flight)
    log,          \* this run's store writes: [i, pid, kind, ok, err]
    visited,      \* the list positions whose iteration began in this run
    atInt,        \* counters and tables when the interrupt arrived, Null without one
    runStart,     \* the tables when this run began
    prevClean,    \* the previous run ended at the summary with no failure
    qname,        \* resolver specification: the name asked for
    qres,         \* the answer of the function a specification applies, Null before the call
    qrows,        \* aggregator specification: the raw round rows (new_data)
    qpayload,     \* snapshot specification: reload_data
    sinceFetch    \* "none" before the first fetch of a run, "fetched" after a fetch,
                  \* "slept" once time.sleep(1) has run after it

vars == <<env, uniqueKey, pga_players, results, now, run, pc, players, idx, pid,
          records, reload, tourn_ok, skills_ok, driverQuits, printed, exc, log,
          visited, atInt, runStart, prevClean, qname, qres, qrows, qpayload, sinceFetch>>

world == <<env, uniqueKey, run, runStart, prevClean, qname, qres, qrows, qpayload>>
tables == <<pga_players, results>>
counters == <<tourn_ok, skills_ok>>
locals == <<pid, records, reload, sinceFetch>>
ending == <<driverQuits, printed, atInt>>

Lists(S, n) == UNION {[1..k -> S] : k \in 0..n}

RegistryNames == {InitialRegistry[i].name : i \in 1..Len(InitialRegistry)}

\* What a field source can answer.  "error": the lookup reports an error, the
\* file does not exist, the event page has no leaderboard.  "nodetect": no
\* completed event is detected.
Environments ==
    [source : {"tournament_id"}, fail : {"ok"}, field : Lists(RegistryNames, MaxPlayers)]
    \cup [source : {"field_file", "event", "latest"}, fail : {"ok"},
          field : Lists(RawNames, MaxPlayers)]
    \cup [source : {"tournament_id", "field_file", "event", "latest"}, fail : {"error"},
          field : {<<>>}]
    \cup [source : {"latest"}, fail : {"nodetect"}, field : {<<>>}]

Tables == [results |-> results, pga_players |-> pga_players]

\* The state of main after  driver = webdriver.Chrome(options=opts) .
RunInit ==
    /\ pc = "start"
    /\ players = <<>>
    /\ idx = 0
    /\ pid = 0
    /\ records = <<>>
    /\ reload = Null
    /\ tourn_ok = 0
    /\ skills_ok = 0
    /\ driverQuits = 0
    /\ printed = Null
    /\ exc = "none"
    /\ log = <<>>
    /\ visited = {}
    /\ atInt = Null
    /\ sinceFetch = "none"

Init ==
    /\ env \in Environments
    /\ uniqueKey \in BOOLEAN
    /\ pga_players = InitialRegistry
    /\ results = EmptyBag
    /\ now = 0
    /\ run = 1
    /\ RunInit
    /\ runStart = [results |-> EmptyBag, pga_players |-> InitialRegistry]
    /\ prevClean = FALSE
    /\ qname = <<>>
    /\ qres = Null
    /\ qrows = <<>>
    /\ qpayload = Null

\* --------------------------------------------------- main: the player list
\* Lines 310-354: the players main obtains, Null when it prints the
\* remediation message, quits the driver and returns.
ResolveInput(e) ==
    CASE e.source = "tournament_id" ->
            load_players_from_tournament([error |-> e.fail = "error", data |-> e.field])
      [] e.source = "field_file" ->
            IF e.fail = "error" THEN Null ELSE Some(load_players_from_field_file(e.field))
      [] e.source = "event" ->
            fetch_field_from_past_results(IF e.fail = "error" THEN Null ELSE Some(e.field))
      [] e.source = "latest" ->
            IF e.fail = "nodetect" THEN Null
            ELSE fetch_field_from_past_results(IF e.fail = "error" THEN Null ELSE Some(e.field))

LoadPlayers ==
    /\ pc = "start"
    /\ LET got == ResolveInput(env)
       IN  IF IsNull(got)
           THEN /\ pc' = "halted"
                /\ driverQuits' = driverQuits + 1
                /\ UNCHANGED players
           ELSE /\ pc' = "for"
                /\ players' = got[1]
                /\ UNCHANGED driverQuits
    /\ UNCHANGED <<world, tables, now, idx, locals, counters, printed, exc, log,
                   visited, atInt>>

\* The store or the browser raises while the list is loaded: nothing catches it.
LoadRaise ==
    /\ pc = "start"
    /\ pc' = "crashed"
    /\ exc' = "Exception"
    /\ UNCHANGED <<world, tables, now, players, idx, locals, counters, ending, log, visited>>

\* ------------------------------------------------------ main: the loop
\* The statements inside  try:  (lines 359-400).
TryPcs == {"for", "scrape", "upsert", "fallback", "tourn_inc", "skills", "skills_inc",
           "sleep"}

\* An exception that no handler inside the loop catches leaves the try block.
Raise == pc' = "finally" /\ exc' = "Exception"

Event(kind, ok, err) == [i |-> idx, pid |-> pid, kind |-> kind, ok |-> ok, err |-> err]

\* Mutant of AfterResolve: the  continue  of the not-found branch is missing.
AfterResolveNoContinue(r) ==
    CASE r.tag = "id" -> "scrape"
      [] r.tag = "None" -> "scrape"
      [] OTHER -> "finally"

\* Lines 363-366: where main goes with get_player_id's answer.
AfterResolve(r) ==
    CASE r.tag = "id" -> "scrape"
      [] r.tag = "None" -> "for"
      [] OTHER -> "finally"

\* for i, name in enumerate(players): pid = get_player_id(name)
ForNext ==
    /\ pc = "for"
    /\ idx < Len(players)
    /\ LET r == get_player_id(pga_players, players[idx + 1])
       IN  /\ pc' = AfterResolve(r)
           /\ pid' = r.id
           /\ exc' = IF r.tag = "IndexError" THEN "Exception" ELSE exc
    /\ idx' = idx + 1
    /\ visited' = visited \cup {idx + 1}
    /\ UNCHANGED <<world, tables, now, players, records, reload, sinceFetch, counters,
                   ending, log>>

\* The registry query of get_player_id raises (store unreachable).
GetPlayerIdRaise ==
    /\ pc = "for"
    /\ idx < Len(players)
    /\ idx' = idx + 1
    /\ visited' = visited \cup {idx + 1}
    /\ Raise
    /\ UNCHANGED <<world, tables, now, players, locals, counters, ending, log>>

\* The list is exhausted.
ForExit ==
    /\ pc = "for"
    /\ idx = Len(players)
    /\ pc' = "finally"
    /\ UNCHANGED <<world, tables, now, players, idx, locals, counters, ending, exc, log,
                   visited>>

\* Lines 369-375: where main goes with the page and the records made of it.
AfterScrape(data, recs) ==
    IF IsNull(data) THEN "for"
    ELSE IF recs # <<>> THEN "upsert" ELSE "skills"

\* Lines 368-374: data = scrape_player(driver, name), then the records.  The
\* sleeps of scrape_player let the clock advance.
ScrapePlayer ==
    /\ pc = "scrape"
    /\ now' = now + 1
    /\ sinceFetch' = "fetched"
    /\ LET data == scrape_player(players[idx])
           new_data == IF IsNull(data) THEN <<>> ELSE data[1].new_data
       IN  IF RaisesKeyError(new_data)
           THEN /\ Raise
                /\ UNCHANGED <<records, reload>>
           ELSE /\ records' = process_tournament_records(new_data, pid)
                /\ reload' = IF IsNull(data) THEN Null ELSE data[1].reload_data
                /\ pc' = AfterScrape(data, records')
                /\ UNCHANGED exc
    /\ UNCHANGED <<world, tables, players, idx, pid, counters, ending, log, visited>>

\* The browser raises inside scrape_player.
ScrapeRaise ==
    /\ pc = "scrape"
    /\ now' = now + 1
    /\ sinceFetch' = "fetched"
    /\ Raise
    /\ UNCHANGED <<world, tables, players, idx, pid, records, reload, counters, ending, log,
                   visited>>

\* ------------------------------------------------------- the two tables
KeyOf(r) == <<r.pga_player_id, r.tournament_name, r.tournament_date>>
BatchKeys(batch) == {KeyOf(batch[i]) : i \in 1..Len(batch)}
DistinctKeys(batch) == Cardinality(BatchKeys(batch)) = Len(batch)

RECURSIVE SeqToBag(_)
SeqToBag(batch) ==
    IF batch = <<>> THEN EmptyBag ELSE SetToBag({batch[1]}) (+) SeqToBag(Tail(batch))

\* upsert(records, on_conflict="pga_player_id,tournament_name,tournament_date"):
\* a stored row with the key of a record is replaced by it.
KeyedUpsert(table, batch) ==
    LET kept == {r \in DOMAIN table : KeyOf(r) \notin BatchKeys(batch)}
    IN  [r \in kept |-> table[r]] (+) SeqToBag(batch)

\* upsert(records): the conflict target is the primary key, which no record
\* carries, so every record is inserted.
PlainUpsert(table, batch) == table (+) SeqToBag(batch)

\* The store accepts the keyed upsert only with the unique constraint its
\* on_conflict names, and no statement may touch one key twice.
KeyedAccepted(batch) == uniqueKey /\ DistinctKeys(batch)

\* With the unique constraint declared, an insert that repeats a key is refused.
PlainAccepted(table, batch) ==
    ~uniqueKey \/ (DistinctKeys(batch)
                   /\ \A r \in DOMAIN table : KeyOf(r) \notin BatchKeys(batch))

\* update(skills).eq("id", pid)
UpdateSkills(table, id, skills) ==
    [k \in 1..Len(table) |->
        IF table[k].id = id THEN [table[k] EXCEPT !.skills = skills] ELSE table[k]]

\* --------------------------------------------- main: tournament records
\* Mutant of RetryOnError: every failure of the keyed upsert is retried.
RetryOnAnyError(e) == TRUE

\* Line 383:  "on_conflict" in str(e).lower()
RetryOnError(e) == e = "on_conflict"

\* Lines 377-381: the keyed upsert succeeds.
UpsertOk ==
    /\ pc = "upsert"
    /\ KeyedAccepted(records)
    /\ results' = KeyedUpsert(results, records)
    /\ log' = Append(log, Event("keyed", TRUE, ""))
    /\ pc' = "tourn_inc"
    /\ UNCHANGED <<world, pga_players, now, players, idx, locals, counters, ending, exc,
                   visited>>

\* Lines 382-385: the keyed upsert raises; e says whether the message
\* mentions on_conflict.
UpsertFail ==
    /\ pc = "upsert"
    /\ \E e \in {"on_conflict", "other"} :
          /\ log' = Append(log, Event("keyed", FALSE, e))
          /\ pc' = IF RetryOnError(e) THEN "fallback" ELSE "tourn_inc"
    /\ UNCHANGED <<world, tables, now, players, idx, locals, counters, ending, exc, visited>>

\* Line 384: the upsert without a key succeeds.
FallbackOk ==
    /\ pc = "fallback"
    /\ PlainAccepted(results, records)
    /\ results' = PlainUpsert(results, records)
    /\ log' = Append(log, Event("fallback", TRUE, ""))
    /\ pc' = "tourn_inc"
    /\ UNCHANGED <<world, pga_players, now, players, idx, locals, counters, ending, exc,
                   visited>>

\* Line 384 raises inside the except block: the exception leaves the loop.
FallbackFail ==
    /\ pc = "fallback"
    /\ log' = Append(log, Event("fallback", FALSE, "other"))
    /\ Raise
    /\ UNCHANGED <<world, tables, now, players, idx, locals, counters, ending, visited>>

\* tourn_ok += 1  (line 381 or line 385)
TournInc ==
    /\ pc = "tourn_inc"
    /\ tourn_ok' = tourn_ok + 1
    /\ pc' = "skills"
    /\ UNCHANGED <<world, tables, now, players, idx, locals, skills_ok, ending, exc, log,
                   visited>>

\* ------------------------------------------------- main: skill snapshot
\* Lines 388-389: process_skills returned None.
SkillsNone ==
    /\ pc = "skills"
    /\ SkillsAbsent(reload)
    /\ pc' = "sleep"
    /\ UNCHANGED <<world, tables, now, players, idx, locals, counters, ending, exc, log,
                   visited>>

\* Line 390: the update succeeds.
UpdateOk ==
    /\ pc = "skills"
    /\ ~SkillsAbsent(reload)
    /\ pga_players' = UpdateSkills(pga_players, pid, process_skills(reload, now))
    /\ log' = Append(log, Event("skills", TRUE, ""))
    /\ pc' = "skills_inc"
    /\ UNCHANGED <<world, results, now, players, idx, locals, counters, ending, exc,
                   visited>>

\* Line 390 raises: nothing inside the loop catches it.
UpdateFail ==
    /\ pc = "skills"
    /\ ~SkillsAbsent(reload)
    /\ log' = Append(log, Event("skills", FALSE, "other"))
    /\ Raise
    /\ UNCHANGED <<world, tables, now, players, idx, locals, counters, ending, visited>>

\* skills_ok += 1
SkillsInc ==
    /\ pc = "skills_inc"
    /\ skills_ok' = skills_ok + 1
    /\ pc' = "sleep"
    /\ UNCHANGED <<world, tables, now, players, idx, locals, tourn_ok, ending, exc, log,
                   visited>>

\* Lines 393-400: the status line and time.sleep(1).
Sleep ==
    /\ pc = "sleep"
    /\ pc' = "for"
    /\ records' = <<>>
    /\ reload' = Null
    /\ sinceFetch' = "slept"
    /\ UNCHANGED <<world, tables, now, players, idx, pid, counters, ending, exc, log,
                   visited>>

\* ---------------------------------------------------- main: the ending
\* Ctrl-C while a statement of the try block runs; line 402 catches it.
Interrupt ==
    /\ pc \in TryPcs
    /\ exc' = "KeyboardInterrupt"
    /\ pc' = "finally"
    /\ atInt' = Some([tourn_ok |-> tourn_ok, skills_ok |-> skills_ok,
                      results |-> results, pga_players |-> pga_players])
    /\ UNCHANGED <<world, tables, now, players, idx, locals, counters, driverQuits,
                   printed, log, visited>>

\* Mutant of AfterFinally: no  except KeyboardInterrupt  clause.
AfterFinallyNoExcept(e) == IF e = "none" THEN "summary" ELSE "crashed"

\* Lines 402-405: only an exception that was not caught goes on past finally.
AfterFinally(e) == IF e \in {"none", "KeyboardInterrupt"} THEN "summary" ELSE "crashed"

\* finally: driver.quit()
Finally ==
    /\ pc = "finally"
    /\ driverQuits' = driverQuits + 1
    /\ pc' = AfterFinally(exc)
    /\ UNCHANGED <<world, tables, now, players, idx, locals, counters, printed, atInt,
                   exc, log, visited>>

\* Lines 407-411.
Summary ==
    /\ pc = "summary"
    /\ printed' = Some(<<tourn_ok, skills_ok>>)
    /\ pc' = "done"
    /\ UNCHANGED <<world, tables, now, players, idx, locals, counters, driverQuits, atInt,
                   exc, log, visited>>

\* No failure and no interrupt in this run.
Clean == exc = "none" /\ \A k \in 1..Len(log) : log[k].ok

\* The operator runs the script again, with the same arguments.
NewRun ==
    /\ pc \in {"done", "halted", "crashed"}
    /\ run < MaxRuns
    /\ run' = run + 1
    /\ prevClean' = (pc = "done" /\ Clean)
    /\ runStart' = Tables
    /\ pc' = "start"
    /\ players' = <<>>
    /\ idx' = 0
    /\ pid' = 0
    /\ records' = <<>>
    /\ reload' = Null
    /\ tourn_ok' = 0
    /\ skills_ok' = 0
    /\ driverQuits' = 0
    /\ printed' = Null
    /\ exc' = "none"
    /\ log' = <<>>
    /\ visited' = {}
    /\ atInt' = Null
    /\ sinceFetch' = "none"
    /\ UNCHANGED <<env, uniqueKey, tables, now, qname, qres, qrows, qpayload>>

\* One step of one run of main.
RunStep ==
    \/ LoadPlayers
    \/ LoadRaise
    \/ ForNext
    \/ GetPlayerIdRaise
    \/ ForExit
    \/ ScrapePlayer
    \/ ScrapeRaise
    \/ UpsertOk
    \/ UpsertFail
    \/ FallbackOk
    \/ FallbackFail
    \/ TournInc
    \/ SkillsNone
    \/ UpdateOk
    \/ UpdateFail
    \/ SkillsInc
    \/ Sleep
    \/ Interrupt
    \/ Finally
    \/ Summary

Next == RunStep \/ NewRun

\* Up to MaxRuns runs of the script against one store.
Spec == Init /\ [][Next]_vars

\* One run of the script against a store that holds no result yet.
SpecRun == Init /\ [][RunStep]_vars

\* ------------------------------------------- the resolver on its own
Names == Lists(Alphabet, MaxNameLen)

\* Canonical names, as the registry stores them: no blank at either end.
CanonicalNames == {n \in Names : Strip(n) = n}

\* Every registry of at most MaxRegistry records, in every store order (the
\* two columns get_player_id selects).
Registries ==
    {[k \in 1..Len(ns) |-> [id |-> k, name |-> ns[k]]] :
        ns \in Lists(CanonicalNames, MaxRegistry)}

\* Registries of colliding records: names that differ in case only, and the
\* aliased player "B A" beside a player of the same surname.
CollidingNames == {<<"a">>, <<"A">>, NameBA, <<"a", " ", "A">>}
CollisionRegistries ==
    {[k \in 1..(MaxRegistry + 1) |-> [id |-> k, name |-> ns[k]]] :
        ns \in [1..(MaxRegistry + 1) -> CollidingNames]}

InitResolver ==
    /\ pga_players \in Registries \cup CollisionRegistries
    /\ qname \in Names \cup {NameBA, NameAliasBA}
    /\ qres = Null
    /\ env = [source |-> "field_file", fail |-> "ok", field |-> <<>>]
    /\ uniqueKey = TRUE
    /\ results = EmptyBag
    /\ now = 0
    /\ run = 1
    /\ RunInit
    /\ runStart = [results |-> EmptyBag, pga_players |-> <<>>]
    /\ prevClean = FALSE
    /\ qrows = <<>>
    /\ qpayload = Null

\* pid = get_player_id(name)
Resolve ==
    /\ IsNull(qres)
    /\ qres' = Some(get_player_id(pga_players, qname))
    /\ UNCHANGED <<env, uniqueKey, pga_players, results, now, run, pc, players, idx, pid,
                   records, reload, tourn_ok, skills_ok, driverQuits, printed, exc, log,
                   visited, atInt, runStart, prevClean, qname, qrows, qpayload, sinceFetch>>

\* get_player_id applied to every name over every registry of the bounds.
SpecResolver == InitResolver /\ [][Resolve]_vars

\* One run, with the steps the interpreter is bound to take after the loop.
SpecRunFair == SpecRun /\ WF_vars(Finally) /\ WF_vars(Summary)

\* ------------------------------------------ the aggregator on its own
\* The values a scraped round carries in the columns the rows differ in: a
\* total that is missing, two that average to a half thousandth, and the
\* site's "no data" flag; a putt at the threshold itself.
RowEvents == {"Open", "Cup"}
RowDates == {"Jun 1, 2024", "Jun 01, 2024", "2024-06-08"}
RowTotalsAndScores ==
    { <<Null, 71>>, <<Some(1200), 68>>, <<Some(1201), 69>>, <<Some(-9999000), 70>> }
RowPutts == {Some(300), Some(-9000000)}

RawRows ==
    {Round(e, d, 5, "T5", ts[1], p, ts[2]) :
        e \in RowEvents, d \in RowDates, ts \in RowTotalsAndScores, p \in RowPutts}

\* The state outside main that the function specifications leave alone.
Idle ==
    /\ env = [source |-> "field_file", fail |-> "ok", field |-> <<>>]
    /\ uniqueKey = TRUE
    /\ results = EmptyBag
    /\ now = 0
    /\ run = 1
    /\ RunInit
    /\ runStart = [results |-> EmptyBag, pga_players |-> <<>>]
    /\ prevClean = FALSE
    /\ qres = Null

InitAggregator ==
    /\ qrows \in Lists(RawRows, MaxRows)
    /\ pga_players = InitialRegistry
    /\ qname = <<>>
    /\ qpayload = Null
    /\ Idle

\* records = process_tournament_records(data.get("new_data", []), pid)
Aggregate ==
    /\ IsNull(qres)
    /\ qres' = Some(process_tournament_records(qrows, 1))
    /\ UNCHANGED <<env, uniqueKey, run, runStart, prevClean, qname, qrows, qpayload,
                   tables, now, pc, players, idx, locals, counters, ending, exc, log,
                   visited>>

\* process_tournament_records applied to every list of rows of the bounds.
SpecAggregator == InitAggregator /\ [][Aggregate]_vars

\* -------------------------------------- the snapshot builder on its own
\* The four categories that feed a percentile field and a strokes-gained field.
OverallBins == {"driving", "approach", "around", "putting"}

\* How a payload carries such a category: not at all, with a value written
\* "+0.4567", with "-0.3215", or with a text that is no number.
Carriage == {"absent", "plus", "minus", "bad"}

VariantOf(c, how) ==
    CASE how = "plus" -> Category(c.bin, c.perc, "num", 4567)
      [] how = "minus" -> Category(c.bin, c.perc, "num", -3215)
      [] OTHER -> Category(c.bin, c.perc, "bad", 0)

\* break_skills with the overall categories carried as ch says and the
\* twelve detail categories present or not.
BuildSkills(ch, detail) ==
    LET Keep(c) == IF c.bin \in OverallBins THEN ch[c.bin] # "absent" ELSE detail
        kept == SelectSeq(FullSkills, Keep)
    IN  [i \in 1..Len(kept) |->
            IF kept[i].bin \in OverallBins THEN VariantOf(kept[i], ch[kept[i].bin])
            ELSE kept[i]]

Payloads ==
    {[dg_id |-> d, break_skills |-> BuildSkills(ch, detail)] :
        d \in {Null, Some(11)}, ch \in [OverallBins -> Carriage], detail \in BOOLEAN}

InitSkills ==
    /\ qpayload \in {Null} \cup {Some(x) : x \in Payloads}
    /\ pga_players = InitialRegistry
    /\ qname = <<>>
    /\ qrows = <<>>
    /\ Idle

\* skills = process_skills(data.get("reload_data")): Null is "no data".
BuildSnapshot ==
    /\ IsNull(qres)
    /\ qres' = Some(IF SkillsAbsent(qpayload) THEN Null
                    ELSE Some(process_skills(qpayload, now)))
    /\ UNCHANGED <<env, uniqueKey, run, runStart, prevClean, qname, qrows, qpayload,
                   tables, now, pc, players, idx, locals, counters, ending, exc, log,
                   visited>>

\* process_skills applied to every payload of the universe.
SpecSkills == InitSkills /\ [][BuildSnapshot]_vars

\* =============================================================== claims
\* Vocabulary of the claims, read off the log of store writes.
LogIndex == 1..Len(log)
TournamentWrite(k) == log[k].kind \in {"keyed", "fallback"}
WroteTournament(i) == \E k \in LogIndex : log[k].i = i /\ TournamentWrite(k) /\ log[k].ok
WroteSkills(i) == \E k \in LogIndex : log[k].i = i /\ log[k].kind = "skills" /\ log[k].ok
Attempts(i, kinds) == Cardinality({k \in LogIndex : log[k].i = i /\ log[k].kind \in kinds})
AttemptsOfPid(p, kinds) ==
    Cardinality({k \in LogIndex : log[k].pid = p /\ log[k].kind \in kinds})

\* C1: a second run over the same list, registry and fetched data, both runs
\* free of failures, leaves both tables exactly as the first run left them.
C1_RerunLeavesTablesIdentical ==
    (run > 1 /\ prevClean /\ pc = "done" /\ Clean) => Tables = runStart

\* C2: after any sequence of runs the result table holds at most one row per
\* (player id, tournament name, tournament date).
C2_OneRowPerKey ==
    /\ \A r \in DOMAIN results : results[r] = 1
    /\ \A r1, r2 \in DOMAIN results : KeyOf(r1) = KeyOf(r2) => r1 = r2

\* C3: once the loop is entered and no interrupt occurs, the run ends at the
\* summary with every player of the list processed, whatever failed in between.
C3_FailureNeverAbortsBatch ==
    (pc \in {"done", "crashed"} /\ visited # {} /\ exc # "KeyboardInterrupt")
        => (pc = "done" /\ visited = 1..Len(players))

\* C4: a failed keyed upsert is followed by exactly one un-keyed retry,
\* whatever the error was, and a failed retry does not end the run.
C4_FailedUpsertRetriedOnceAndRunContinues ==
    exc # "KeyboardInterrupt" =>
        \A k \in LogIndex :
            (log[k].kind = "keyed" /\ ~log[k].ok) =>
                \/ k = Len(log) /\ pc = "fallback"
                \/ /\ k < Len(log)
                   /\ log[k + 1].kind = "fallback"
                   /\ log[k + 1].i = log[k].i
                   /\ Attempts(log[k].i, {"fallback"}) = 1
                   /\ (log[k + 1].ok \/ exc = "none")

\* C5: the summary's counters are the numbers of players whose tournament
\* rows, and whose snapshot, were written in this run.
C5_CountersCountWrites ==
    (pc = "done" /\ exc = "none") =>
        printed = Some(<< Cardinality({i \in visited : WroteTournament(i)}),
                          Cardinality({i \in visited : WroteSkills(i)}) >>)

\* C6 as stated: per player id, at most one write attempt of each kind in a run.
C6_AtMostOneAttemptPerPlayer ==
    \A p \in {log[k].pid : k \in LogIndex} :
        /\ AttemptsOfPid(p, {"keyed", "fallback"}) <= 1
        /\ AttemptsOfPid(p, {"skills"}) <= 1

\* C6 amended: per entry of the player list, at most one keyed upsert, at
\* most one un-keyed retry, made only right after the keyed upsert failed with
\* an on_conflict error, and at most one snapshot write.
C6_AttemptsPerListEntry ==
    /\ \A i \in 1..Len(players) :
          /\ Attempts(i, {"keyed"}) <= 1
          /\ Attempts(i, {"fallback"}) <= 1
          /\ Attempts(i, {"skills"}) <= 1
    /\ \A k \in LogIndex :
          log[k].kind = "fallback" =>
              /\ k > 1
              /\ log[k - 1] = [i |-> log[k].i, pid |-> log[k].pid, kind |-> "keyed",
                               ok |-> FALSE, err |-> "on_conflict"]

\* C6 witness: one list entry saw the keyed upsert, the retry and the snapshot
\* write, and its player id was written for two entries.
C6_Witness ==
    \E i, j \in 1..Len(players) :
        /\ i # j
        /\ Attempts(i, {"keyed"}) = 1 /\ Attempts(i, {"fallback"}) = 1
        /\ Attempts(i, {"skills"}) = 1
        /\ \E k, m \in LogIndex : log[k].i = i /\ log[m].i = j /\ log[k].pid = log[m].pid

\* No player list can be obtained from the selected source.
InputUnavailable ==
    \/ env.source = "tournament_id" /\ (env.fail = "error" \/ env.field = <<>>)
    \/ env.source = "field_file" /\ env.fail = "error"
    \/ env.source = "latest" /\ env.fail = "nodetect"
    \/ env.source \in {"event", "latest"} /\ (env.fail = "error" \/ env.field = <<>>)

\* C7: without a player list the run ends before the loop: no player is
\* iterated, no write is attempted, both tables are as the run found them.
C7_NoFieldNoLoopNoWrite ==
    InputUnavailable =>
        /\ pc \in {"start", "halted", "crashed"}
        /\ visited = {} /\ idx = 0
        /\ log = <<>>
        /\ Tables = runStart
        /\ IsNull(printed)

\* C7 witness: the event page carried an empty leaderboard and main returned.
C7_Witness ==
    /\ pc = "halted"
    /\ env.source = "event" /\ env.fail = "ok" /\ env.field = <<>>
    /\ driverQuits = 1

\* The player at list position i is one main skips: the resolver reports
\* not-found, or the fetch returns None or a page with neither rounds nor skills.
SkippedPlayer(i) ==
    LET r == get_player_id(pga_players, players[i])
        page == scrape_player(players[i])
    IN  \/ r.tag = "None"
        \/ /\ r.tag = "id"
           /\ IF IsNull(page) THEN TRUE
              ELSE page[1].new_data = <<>> /\ IsNull(page[1].reload_data)

\* The step is one of the iteration of list position i.
StepOfPlayer(i) ==
    \/ pc = "for" /\ idx' = idx + 1 /\ idx' = i
    \/ pc \in (TryPcs \ {"for"}) /\ idx = i

InterruptHandled ==
    ~IsNull(atInt) =>
        /\ pc \in {"finally", "summary", "done"}
        /\ tourn_ok = atInt[1].tourn_ok /\ skills_ok = atInt[1].skills_ok
        /\ results = atInt[1].results /\ pga_players = atInt[1].pga_players
        /\ (pc \in {"summary", "done"} => driverQuits = 1)
        /\ (pc = "done" => printed = Some(<<atInt[1].tourn_ok, atInt[1].skills_ok>>))

\* C9: an interrupt at any statement of the loop ends the loop; the run then
\* quits the driver and prints the summary with the counters reached so far,
\* and the rows written before stay in the store.
C9_InterruptEndsLoopCleanly ==
    /\ []InterruptHandled
    /\ (~IsNull(atInt)) ~> (pc = "done" /\ ~IsNull(printed) /\ driverQuits = 1)

\* C9 witness: interrupted at the second player, after the first was written.
C9_Witness ==
    /\ pc = "done" /\ ~IsNull(atInt)
    /\ idx = 2 /\ WroteTournament(1) /\ results # EmptyBag
    /\ printed = Some(<<1, 1>>)

\* Vocabulary of C10, on the registry and the name of the resolver query.
Registered == 1..Len(pga_players)
ExactMatches == {k \in Registered : pga_players[k].name = qname}
HasKey == Split(qname) # <<>>
SurnameKey == Split(qname)[Len(Split(qname))]
ContainsKey(k) == Contains(Lower(pga_players[k].name), Lower(SurnameKey))
LastTokenIsKey(k) ==
    LET toks == Split(pga_players[k].name)
    IN  toks # <<>> /\ Lower(toks[Len(toks)]) = Lower(SurnameKey)
SurnameMatches == {k \in Registered : ContainsKey(k) /\ LastTokenIsKey(k)}

\* C10: get_player_id returns the id of an exactly matching record when there
\* is one; with no exact match and exactly one record that contains the
\* surname key and ends in it, that record's id; with no record containing
\* the surname key, not-found.
C10_ResolverContract ==
    ~IsNull(qres) =>
        /\ ExactMatches # {} =>
              qres[1].tag = "id" /\ qres[1].id \in {pga_players[k].id : k \in ExactMatches}
        /\ (ExactMatches = {} /\ HasKey /\ Cardinality(SurnameMatches) = 1) =>
              \E k \in SurnameMatches : qres[1] = FoundId(pga_players[k].id)
        /\ (HasKey /\ \A k \in Registered : ~ContainsKey(k)) => qres[1] = NotFound

\* C10 witness: no exact match, two records contain the key, one ends in it,
\* and that one is not the first; its id is returned.
C10_Witness ==
    /\ ~IsNull(qres) /\ ExactMatches = {} /\ HasKey
    /\ Len(pga_players) = 2
    /\ ContainsKey(1) /\ ~LastTokenIsKey(1)
    /\ SurnameMatches = {2}
    /\ qres[1] = FoundId(2)

\* Vocabulary of C11, C12 and C17, on the rows given to the aggregator and
\* the records it returned.
RowIndex == 1..Len(qrows)
Returned == qres[1]
RawKeys == {<<qrows[i].event_name, qrows[i].date>> : i \in RowIndex}
DateParses(k) == ~IsNull(StrpTime(k[2]))
IsoDate(k) == StrpTime(k[2])[1]
RowsOfKey(k) == {i \in RowIndex : qrows[i].event_name = k[1] /\ qrows[i].date = k[2]}
PresentAboveThreshold(k, col) ==
    {i \in RowsOfKey(k) : IF IsNull(qrows[i][col]) THEN FALSE
                          ELSE qrows[i][col][1] > SentinelThreshold * 1000}
RECURSIVE SumOver(_, _)
SumOver(S, col) ==
    IF S = {} THEN 0
    ELSE LET i == CHOOSE x \in S : TRUE IN qrows[i][col][1] + SumOver(S \ {i}, col)
Components ==
    { <<"total", "strokes_gained_total">>, <<"ott", "strokes_gained_off_tee">>,
      <<"app", "strokes_gained_approach">>, <<"arg", "strokes_gained_around_green">>,
      <<"putt", "strokes_gained_putting">> }
Abs(n) == IF n < 0 THEN -n ELSE n
RecordOfKey(r, k) ==
    /\ r.tournament_name = k[1]
    /\ r.tournament_date = IsoDate(k)
    /\ r.total_score = Some(SumOver(RowsOfKey(k), "round_score"))

\* The component of record r is the exact mean of the values of the group.
ExactMean(r, k, c) ==
    LET vals == PresentAboveThreshold(k, c[1])
    IN  IF vals = {} THEN IsNull(r[c[2]])
        ELSE IF IsNull(r[c[2]]) THEN FALSE
        ELSE r[c[2]][1] * Cardinality(vals) = SumOver(vals, c[1])

\* The component of record r is the mean of the values of the group, rounded
\* to a nearest thousandth.
RoundedMean(r, k, c) ==
    LET vals == PresentAboveThreshold(k, c[1])
    IN  IF vals = {} THEN IsNull(r[c[2]])
        ELSE IF IsNull(r[c[2]]) THEN FALSE
        ELSE 2 * Abs(r[c[2]][1] * Cardinality(vals) - SumOver(vals, c[1]))
                <= Cardinality(vals)

\* C11 as stated: the record of every group carries, per strokes-gained
\* component, the arithmetic mean of the group's values that are present and
\* above the sentinel threshold (null when there is none), and the sum of the
\* group's round scores.
C11_ComponentsAreExactMeans ==
    ~IsNull(qres) =>
        \A k \in RawKeys : DateParses(k) =>
            \E j \in 1..Len(Returned) :
                /\ RecordOfKey(Returned[j], k)
                /\ \A c \in Components : ExactMean(Returned[j], k, c)

\* C11 amended: as C11, with each component the mean rounded to three
\* decimals (a nearest thousandth of the exact mean).
C11_ComponentsAreRoundedMeans ==
    ~IsNull(qres) =>
        \A k \in RawKeys : DateParses(k) =>
            \E j \in 1..Len(Returned) :
                /\ RecordOfKey(Returned[j], k)
                /\ \A c \in Components : RoundedMean(Returned[j], k, c)

\* C11 witness: totals 1.2 and -9999 with scores 68 and 70 in one group gave
\* one record with total 1.2 and score 138; the putt at the threshold was
\* left out of its own mean only.
C11_Witness ==
    /\ ~IsNull(qres) /\ Len(qrows) = 2 /\ Len(Returned) = 1
    /\ qrows[1].date = "Jun 1, 2024" /\ qrows[2].date = "Jun 1, 2024"
    /\ qrows[1].event_name = qrows[2].event_name
    /\ qrows[1].total = Some(1200) /\ qrows[2].total = Some(-9999000)
    /\ qrows[1].putt = Some(-9000000) /\ qrows[2].putt = Some(300)
    /\ qrows[1].round_score = Some(68) /\ qrows[2].round_score = Some(70)
    /\ Returned[1].strokes_gained_total = Some(1200)
    /\ Returned[1].strokes_gained_putting = Some(300)
    /\ Returned[1].total_score = Some(138)

\* C12: the returned batch holds exactly one record per distinct (tournament
\* name, parsed date), so no two of its records share the key (tournament
\* name, tournament date).
C12_OneRecordPerNameAndDate ==
    ~IsNull(qres) =>
        /\ Len(Returned) = Cardinality({<<k[1], IsoDate(k)>> : k \in {x \in RawKeys : DateParses(x)}})
        /\ \A i, j \in 1..Len(Returned) :
              (Returned[i].tournament_name = Returned[j].tournament_name
               /\ Returned[i].tournament_date = Returned[j].tournament_date) => i = j

\* C17: a group whose date does not parse yields no record and no error, and
\* every group whose date parses still yields its record.
C17_UnparsableDateDropsOnlyItsGroup ==
    ~IsNull(qres) =>
        /\ Len(Returned) = Cardinality({k \in RawKeys : DateParses(k)})
        /\ \A k \in RawKeys : DateParses(k) =>
              \E j \in 1..Len(Returned) : RecordOfKey(Returned[j], k)

\* C17 witness: the first group's date did not parse, the second group's did,
\* and the batch holds the second group's record alone.
C17_Witness ==
    /\ ~IsNull(qres) /\ Len(qrows) = 2
    /\ ~DateParses(<<qrows[1].event_name, qrows[1].date>>)
    /\ DateParses(<<qrows[2].event_name, qrows[2].date>>)
    /\ Len(Returned) = 1
    /\ RecordOfKey(Returned[1], <<qrows[2].event_name, qrows[2].date>>)

\* Vocabulary of C13, on the payload given to the snapshot builder and the
\* snapshot it returned.
PayloadPresent == IF IsNull(qpayload) THEN FALSE ELSE qpayload[1].break_skills # <<>>
Snapshot == qres[1][1]
CategoriesOf(bin) ==
    {i \in 1..Len(qpayload[1].break_skills) : qpayload[1].break_skills[i].bin = bin}
CategoryAt(i) == qpayload[1].break_skills[i]

\* The percentile field of table entry e is null without its category, else
\* the category's percentile.
PercentileCarried(e) ==
    IF CategoriesOf(e[2]) = {} THEN IsNull(Snapshot[e[1]])
    ELSE \E i \in CategoriesOf(e[2]) : Snapshot[e[1]] = Some(CategoryAt(i).perc)

\* The strokes-gained field of table entry e is null without its category or
\* with a value that is no number, else the value to three decimals.
ValueCarried(e) ==
    IF CategoriesOf(e[2]) = {} THEN IsNull(Snapshot[e[1]])
    ELSE \E i \in CategoriesOf(e[2]) :
            IF CategoryAt(i).val.text = "bad" THEN IsNull(Snapshot[e[1]])
            ELSE IF IsNull(Snapshot[e[1]]) THEN FALSE
            ELSE 2 * Abs(Snapshot[e[1]][1] * 10 - CategoryAt(i).val.n) <= 10

\* C13: for a payload that is present the snapshot has the full fixed set of
\* fields; a field whose category is missing, or whose value does not parse,
\* is null, and every other field carries its category's value.
C13_SnapshotHasEveryField ==
    (~IsNull(qres) /\ PayloadPresent) =>
        /\ ~IsNull(qres[1])
        /\ DOMAIN Snapshot =
              {PercTable[i][1] : i \in 1..Len(PercTable)}
              \cup {SgTable[i][1] : i \in 1..Len(SgTable)}
              \cup {"dg_id", "skills_updated_at"}
        /\ \A i \in 1..Len(PercTable) : PercentileCarried(PercTable[i])
        /\ \A i \in 1..Len(SgTable) : ValueCarried(SgTable[i])

\* C13 witness: the payload lacks the putting category alone; putting_overall
\* and sg_putting are null and every other skill field has a value.
C13_Witness ==
    /\ ~IsNull(qres) /\ PayloadPresent
    /\ Len(qpayload[1].break_skills) = 15 /\ CategoriesOf("putting") = {}
    /\ IsNull(Snapshot["putting_overall"]) /\ IsNull(Snapshot["sg_putting"])
    /\ \A f \in (PercFields \cup SgFields) \ {"putting_overall", "sg_putting"} :
          ~IsNull(Snapshot[f])

\* A skill field (percentile, or strokes gained in thousandths) holds the
\* "no data" flag: a number at or below the sentinel threshold.
HoldsNoDataFlag(skills, f) ==
    IF IsNull(skills[f]) THEN FALSE
    ELSE IF f \in SgFields THEN skills[f][1] <= SentinelThreshold * 1000
    ELSE skills[f][1] <= SentinelThreshold

\* C14: no stored percentile or strokes-gained field of any player holds a
\* "no data" flag value; each is null or a proper number.
C14_NoSentinelInStoredSnapshot ==
    \A k \in 1..Len(pga_players) :
        \A f \in PercFields \cup SgFields : ~HoldsNoDataFlag(pga_players[k].skills, f)

\* C15: a run leaves every registry record's id, name and every other column
\* that is not a skill-snapshot field (the external id dg_id) as it found
\* them, and neither adds nor removes a record.
C15_OnlySnapshotFieldsChange ==
    /\ Len(pga_players) = Len(runStart.pga_players)
    /\ \A k \in 1..Len(pga_players) :
          /\ pga_players[k].id = runStart.pga_players[k].id
          /\ pga_players[k].name = runStart.pga_players[k].name
          /\ pga_players[k].skills["dg_id"] = runStart.pga_players[k].skills["dg_id"]

\* C18: whenever main is about to fetch a player's profile after an earlier
\* fetch of the run, time.sleep(1) has run since that earlier fetch.
C18_DelayBetweenFetches ==
    pc = "scrape" => sinceFetch # "fetched"

\* C20: whenever main has ended, driver.quit() was called exactly once.
C20_DriverQuitOnEveryExit ==
    /\ driverQuits <= 1
    /\ pc \in {"done", "halted", "crashed"} => driverQuits = 1

\* The answer of the surname procedure: the first record, in store order,
\* that contains the surname key and whose last token is the key.
FirstSurnameMatch == CHOOSE k \in SurnameMatches : \A j \in SurnameMatches : k <= j
SurnameProcedureAnswer ==
    IF SurnameMatches = {} THEN NotFound ELSE FoundId(pga_players[FirstSurnameMatch].id)

\* C16: with exactly one record of the given name the answer is that record;
\* with none or several, the answer is the surname procedure's.
C16_ExactStepOnlyOnSingleMatch ==
    (~IsNull(qres) /\ HasKey) =>
        IF Cardinality(ExactMatches) = 1
        THEN \E k \in ExactMatches : qres[1] = FoundId(pga_players[k].id)
        ELSE qres[1] = SurnameProcedureAnswer

\* No two registry records have one name.
UniqueNames ==
    \A i, j \in Registered : pga_players[i].name = pga_players[j].name => i = j

\* C19: over a registry with unique names, the name load_players_from_tournament
\* puts in the list for a record (its alias, if it has one) resolves to the id
\* of that record.
C19_LoadedNameResolvesToItsRecord ==
    (~IsNull(qres) /\ UniqueNames) =>
        \A k \in Registered :
            (pga_players[k].name # <<>> /\ qname = NAME_ALIASES(pga_players[k].name))
                => qres[1] = FoundId(pga_players[k].id)

====
